---- MODULE Spec2Model ----
\* Document-management backend: the relational store (users, workspaces, files,
\* file_permissions), the blob container, and the HTTP handlers that act on
\* them.  Every handler is one atomic action; the response of the last request
\* handled is kept in resp, so that a request that fails is still a step.
EXTENDS Integers, FiniteSets, Sequences, TLC

VARIABLES users, workspaces, files, filePermissions, blobs,
          nextFileId, nextPermId, resp,
          workspaceMembers, nextMemberId,
          input, text, passes, langCode,
          uploads, calls

\* the store, the blob container and the last response
storeVars == <<users, workspaces, files, filePermissions, blobs,
               nextFileId, nextPermId, resp,
               workspaceMembers, nextMemberId>>

\* a text on its way through the bad-word filter, and the requests that are
\* between two of their store statements: uploads, and one call each of the
\* promotion, demotion, grant and update handlers
aux == <<input, text, passes, langCode, uploads, calls>>

vars == <<storeVars, aux>>

-----------------------------------------------------------------------------
\* Universes.  Ids are uuids; they are numbered here.  user_id and
\* permission_id share the numbering because DELETE /permissions/:id uses its
\* one path parameter as both.

\* number of file ids the store issues (files.file_id defaultRandom)
MaxFiles == 2
\* number of permission ids the store issues (permission_id defaultRandom)
MaxPerms == 2
\* number of blob versions the container keeps per name
MaxBlobVersions == 2
\* number of membership ids the store issues (workspace_member_id defaultRandom)
MaxMembers == 2
\* length of the texts handed to the bad-word filter
MaxLen == 4
\* number of times a text is handed to the filter
MaxPasses == 2

USER_IDS == {1, 2}
WORKSPACE_IDS == {1, 2}
FILE_NAMES == {"n1", "n2"}
FILE_IDS == 1..MaxFiles
PERM_IDS == 1..MaxPerms

\* a query parameter or body field that the request leaves out
NoId == 0

\* upload request slots
REQS == {1, 2}

\* the handlers of which one call is followed statement by statement
CALLS == {"promote", "demote", "grant", "update"}

FLAGS == {"can_view", "can_edit", "can_delete", "can_share", "can_download"}

\* capability fields of a request body: a function on the flags it carries
NoCaps == [f \in {} |-> TRUE]
AllCaps == [f \in FLAGS |-> TRUE]
CAP_BODIES == {NoCaps, AllCaps}

-----------------------------------------------------------------------------
\* Store helpers

userRows(id) == {u \in users : u.user_id = id}
fileRows(id) == {f \in files : f.file_id = id}
permRows(id) == {p \in filePermissions : p.permission_id = id}
workspaceExists(id) == \E w \in workspaces : w.workspace_id = id

\* a manager gate that only asks whether the user exists
isManagerAnyUser(id) == userRows(id) # {}

\* user[0].is_manager of a non-empty select
isManager(id) == \E u \in userRows(id) : u.is_manager

\* a file_permissions table declared without its unique constraint
file_user_permission_unique_off(rows) == TRUE

\* unique("file_user_permission_unique").on(file_id, user_id)
file_user_permission_unique(rows) ==
    \A p, q \in rows :
        (p.file_id = q.file_id /\ p.user_id = q.user_id) => p = q

\* a files table declared without its unique constraint
file_name_workspace_unique_off(rows) == TRUE

\* unique("file_name_workspace_unique").on(workspace_id, file_name)
file_name_workspace_unique(rows) ==
    \A f, g \in rows :
        (f.workspace_id = g.workspace_id /\ f.file_name = g.file_name) => f = g

\* a workspace_members table declared without its unique constraint
user_workspace_unique_off(rows) == TRUE

\* unique("user_workspace_unique").on(user_id, workspace_id)
user_workspace_unique(rows) ==
    \A m, n \in rows :
        (m.user_id = n.user_id /\ m.workspace_id = n.workspace_id) => m = n

\* foreign keys of a workspace_members row
workspaceMembersForeignKeys(m) ==
    /\ userRows(m.user_id) # {}
    /\ workspaceExists(m.workspace_id)

\* foreign keys of a file_permissions row
filePermissionsForeignKeys(p) ==
    /\ fileRows(p.file_id) # {}
    /\ userRows(p.user_id) # {}
    /\ workspaceExists(p.workspace_id)
    /\ userRows(p.granted_by_id) # {}

\* foreign keys of a files row
filesForeignKeys(f) ==
    /\ workspaceExists(f.workspace_id)
    /\ userRows(f.uploader_id) # {}

withFlags(p, fl) ==
    [p EXCEPT !.can_view = fl["can_view"], !.can_edit = fl["can_edit"],
              !.can_delete = fl["can_delete"], !.can_share = fl["can_share"],
              !.can_download = fl["can_download"]]

\* a promotion cascade that sets can_view alone
promoteFlagsViewOnly == [f \in FLAGS |-> f = "can_view"]

\* .set({ can_view: true, ... }) of the promotion handler
promoteFlags == [f \in FLAGS |-> TRUE]
\* a demotion cascade that clears can_view alone
demoteFlagsViewOnly == [f \in FLAGS |-> f # "can_view"]

\* .set({ can_view: false, ... }) of the demotion handler
demoteFlags == [f \in FLAGS |-> FALSE]

\* blockBlobClient.url: the container url followed by the blob name
blobUrl(name) == name

Respond(op, status) == resp' = [op |-> op, status |-> status]

-----------------------------------------------------------------------------
\* members

\* POST /members: insert the body; a body with is_manager also runs the cascade
CreateMember(id, is_manager) ==
    /\ UNCHANGED aux
    /\ UNCHANGED <<workspaces, files, blobs, nextFileId, nextPermId, nextMemberId>>
    /\ UNCHANGED workspaceMembers
    /\ IF userRows(id) # {}
       THEN \* primary key violation: the store throws
            /\ Respond("createMember", 500)
            /\ UNCHANGED <<users, filePermissions>>
       ELSE /\ users' = users \cup {[user_id |-> id, is_manager |-> is_manager]}
            /\ filePermissions' =
                 IF is_manager
                 THEN {IF p.user_id = id THEN withFlags(p, promoteFlags) ELSE p :
                          p \in filePermissions}
                 ELSE filePermissions
            /\ Respond("createMember", 200)

\* users referenced by workspaces and files only
userDeleteRestrictedNoGrantor(id) ==
    \/ \E w \in workspaces : w.workspace_manager_id = id
    \/ \E f \in files : f.uploader_id = id

\* ON DELETE RESTRICT references to users(user_id)
userDeleteRestricted(id) ==
    \/ \E w \in workspaces : w.workspace_manager_id = id
    \/ \E f \in files : f.uploader_id = id
    \/ \E p \in filePermissions : p.granted_by_id = id

\* DELETE /members/:id
DeleteMember(id) ==
    /\ UNCHANGED aux
    /\ UNCHANGED <<workspaces, files, blobs, nextFileId, nextPermId, nextMemberId>>
    /\ IF userRows(id) = {}
       THEN /\ Respond("deleteMember", 404)
            /\ UNCHANGED <<users, filePermissions, workspaceMembers>>
       ELSE IF userDeleteRestricted(id)
       THEN /\ Respond("deleteMember", 500)
            /\ UNCHANGED <<users, filePermissions, workspaceMembers>>
       ELSE /\ users' = users \ userRows(id)
            /\ filePermissions' = {p \in filePermissions : p.user_id # id}
            /\ workspaceMembers' = {m \in workspaceMembers : m.user_id # id}
            /\ Respond("deleteMember", 200)

\* POST /members/manager/:id
PromoteManager(id) ==
    /\ UNCHANGED aux
    /\ users' = {IF u.user_id = id THEN [u EXCEPT !.is_manager = TRUE] ELSE u :
                    u \in users}
    /\ filePermissions' =
         {IF p.user_id = id THEN withFlags(p, promoteFlags) ELSE p :
             p \in filePermissions}
    /\ Respond("promote", 200)
    /\ UNCHANGED <<workspaces, files, blobs, nextFileId, nextPermId, nextMemberId>>
    /\ UNCHANGED workspaceMembers

\* DELETE /members/manager/:id
DemoteManager(id) ==
    /\ UNCHANGED aux
    /\ users' = {IF u.user_id = id THEN [u EXCEPT !.is_manager = FALSE] ELSE u :
                    u \in users}
    /\ filePermissions' =
         {IF p.user_id = id THEN withFlags(p, demoteFlags) ELSE p :
             p \in filePermissions}
    /\ Respond("demote", 200)
    /\ UNCHANGED <<workspaces, files, blobs, nextFileId, nextPermId, nextMemberId>>
    /\ UNCHANGED workspaceMembers

\* POST /members/manager/:id, first statement: update(users)
PromoteUsers(id) ==
    /\ calls["promote"].pc = "idle"
    /\ calls' = [calls EXCEPT !["promote"] = [pc |-> "updated", id |-> id]]
    /\ users' = {IF u.user_id = id THEN [u EXCEPT !.is_manager = TRUE] ELSE u :
                    u \in users}
    /\ UNCHANGED <<workspaces, files, filePermissions, blobs, nextFileId,
                   nextPermId, resp, workspaceMembers, nextMemberId>>
    /\ UNCHANGED <<input, text, passes, langCode, uploads>>

\* POST /members/manager/:id, second statement: update(filePermissions)
PromoteCascade ==
    /\ calls["promote"].pc = "updated"
    /\ calls' = [calls EXCEPT !["promote"].pc = "done"]
    /\ filePermissions' =
         {IF p.user_id = calls["promote"].id
          THEN withFlags(p, promoteFlags) ELSE p : p \in filePermissions}
    /\ Respond("promote", 200)
    /\ UNCHANGED <<users, workspaces, files, blobs, nextFileId, nextPermId,
                   workspaceMembers, nextMemberId>>
    /\ UNCHANGED <<input, text, passes, langCode, uploads>>

\* DELETE /members/manager/:id, first statement: update(users)
DemoteUsers(id) ==
    /\ calls["demote"].pc = "idle"
    /\ calls' = [calls EXCEPT !["demote"] = [pc |-> "updated", id |-> id]]
    /\ users' = {IF u.user_id = id THEN [u EXCEPT !.is_manager = FALSE] ELSE u :
                    u \in users}
    /\ UNCHANGED <<workspaces, files, filePermissions, blobs, nextFileId,
                   nextPermId, resp, workspaceMembers, nextMemberId>>
    /\ UNCHANGED <<input, text, passes, langCode, uploads>>

\* DELETE /members/manager/:id, second statement: update(filePermissions)
DemoteCascade ==
    /\ calls["demote"].pc = "updated"
    /\ calls' = [calls EXCEPT !["demote"].pc = "done"]
    /\ filePermissions' =
         {IF p.user_id = calls["demote"].id
          THEN withFlags(p, demoteFlags) ELSE p : p \in filePermissions}
    /\ Respond("demote", 200)
    /\ UNCHANGED <<users, workspaces, files, blobs, nextFileId, nextPermId,
                   workspaceMembers, nextMemberId>>
    /\ UNCHANGED <<input, text, passes, langCode, uploads>>

-----------------------------------------------------------------------------
\* workspaces

\* POST /workspaces/:userId: the row inserted is the request body; a body
\* without workspaceId gets an id of the store's choosing
CreateWorkspace(userId, workspaceId, workspaceManagerId) ==
    /\ UNCHANGED aux
    /\ UNCHANGED <<users, files, filePermissions, blobs, nextFileId, nextPermId,
                   workspaceMembers, nextMemberId>>
    /\ IF userRows(userId) = {}
       THEN Respond("createWorkspace", 404) /\ UNCHANGED workspaces
       ELSE IF ~isManager(userId)
       THEN Respond("createWorkspace", 400) /\ UNCHANGED workspaces
       ELSE IF \/ userRows(workspaceManagerId) = {}
               \/ (workspaceId # NoId /\ workspaceExists(workspaceId))
       THEN \* not-null, foreign key or primary key violation: the store throws
            Respond("createWorkspace", 500) /\ UNCHANGED workspaces
       ELSE /\ \E id \in (IF workspaceId # NoId THEN {workspaceId}
                           ELSE {w \in WORKSPACE_IDS : ~workspaceExists(w)}) :
                 workspaces' = workspaces \cup
                    {[workspace_id |-> id,
                      workspace_manager_id |-> workspaceManagerId]}
            /\ Respond("createWorkspace", 200)

\* the membership rows of one user, whatever the workspace
memberRowsOfUser(workspaceId, userId) ==
    {m \in workspaceMembers : m.user_id = userId}

\* and(eq(workspaceMembers.workspaceId, ..), eq(workspaceMembers.userId, ..))
memberRows(workspaceId, userId) ==
    {m \in workspaceMembers : m.workspace_id = workspaceId /\ m.user_id = userId}

\* POST /workspaces/member
AddMember(workspaceId, userId, grantedById) ==
    /\ UNCHANGED aux
    /\ UNCHANGED <<users, workspaces, files, filePermissions, blobs,
                   nextFileId, nextPermId>>
    /\ IF userRows(grantedById) = {}
       THEN /\ Respond("addMember", 404)
            /\ UNCHANGED <<workspaceMembers, nextMemberId>>
       ELSE IF ~isManager(grantedById)
       THEN /\ Respond("addMember", 400)
            /\ UNCHANGED <<workspaceMembers, nextMemberId>>
       ELSE /\ nextMemberId < MaxMembers
            /\ LET new == [workspace_member_id |-> nextMemberId + 1,
                           user_id |-> userId,
                           workspace_id |-> workspaceId]
                   rows == workspaceMembers \cup {new}
               IN IF workspaceMembersForeignKeys(new) /\ user_workspace_unique(rows)
                  THEN /\ workspaceMembers' = rows
                       /\ nextMemberId' = nextMemberId + 1
                       /\ Respond("addMember", 200)
                  ELSE /\ UNCHANGED <<workspaceMembers, nextMemberId>>
                       /\ Respond("addMember", 500)

\* DELETE /workspaces/member
RemoveMember(workspaceId, userId, grantedById) ==
    /\ UNCHANGED aux
    /\ UNCHANGED <<users, workspaces, files, filePermissions, blobs,
                   nextFileId, nextPermId, nextMemberId>>
    /\ IF userRows(grantedById) = {}
       THEN Respond("removeMember", 404) /\ UNCHANGED workspaceMembers
       ELSE IF ~isManager(grantedById)
       THEN Respond("removeMember", 400) /\ UNCHANGED workspaceMembers
       ELSE /\ workspaceMembers' =
                 workspaceMembers \ memberRows(workspaceId, userId)
            /\ Respond("removeMember", 200)

-----------------------------------------------------------------------------
\* files

\* an upload handler that never refuses the uploader
userNotFoundNever(user_id) == FALSE

\* user.length === 0 of the upload handler
userNotFound(user_id) == userRows(user_id) = {}

\* a re-upload that skips a version
reuploadVersionPlusTwo(version) == version + 2

\* a re-upload that resets the version
reuploadVersionReset(version) == 0

\* version: file[0].version || 0 + 1   (parsed as version || (0 + 1))
reuploadVersion(version) == IF version # 0 THEN version ELSE 0 + 1

\* a files row named by the default instead of the filename query
newFileRowDefaultName(id, filename, user_id, workspace_id) ==
    [file_id |-> id, file_name |-> "n1", file_path |-> blobUrl("n1"),
     uploader_id |-> user_id, workspace_id |-> workspace_id, version |-> 1]

\* insert(files).values({ file_name: filename, ..., version: 1 })
newFileRow(id, filename, user_id, workspace_id) ==
    [file_id |-> id, file_name |-> filename, file_path |-> blobUrl(filename),
     uploader_id |-> user_id, workspace_id |-> workspace_id, version |-> 1]

\* POST /upload/:userId/:workspaceId?filename=..&fileId=..
UploadFile(user_id, workspace_id, filename, file_id) ==
    /\ UNCHANGED aux
    /\ UNCHANGED <<users, workspaces, filePermissions, nextPermId,
                   workspaceMembers, nextMemberId>>
    /\ IF userNotFound(user_id)
       THEN /\ Respond("upload", 404)
            /\ UNCHANGED <<files, blobs, nextFileId>>
       ELSE \* blockBlobClient.upload comes before any file row is read
            /\ blobs[filename] < MaxBlobVersions
            /\ blobs' = [blobs EXCEPT ![filename] = @ + 1]
            /\ IF file_id # NoId
               THEN /\ UNCHANGED nextFileId
                    /\ IF fileRows(file_id) = {}
                       THEN Respond("upload", 404) /\ UNCHANGED files
                       ELSE \E old \in fileRows(file_id) :
                              LET new == [old EXCEPT
                                            !.file_name = filename,
                                            !.file_path = blobUrl(filename),
                                            !.uploader_id = user_id,
                                            !.workspace_id = workspace_id,
                                            !.version = reuploadVersion(old.version)]
                                  rows == (files \ {old}) \cup {new}
                              IN IF filesForeignKeys(new) /\ file_name_workspace_unique(rows)
                                 THEN files' = rows /\ Respond("upload", 200)
                                 ELSE UNCHANGED files /\ Respond("upload", 500)
               ELSE /\ nextFileId < MaxFiles
                    /\ LET new == newFileRow(nextFileId + 1, filename,
                                              user_id, workspace_id)
                           rows == files \cup {new}
                       IN IF filesForeignKeys(new) /\ file_name_workspace_unique(rows)
                          THEN /\ files' = rows
                               /\ nextFileId' = nextFileId + 1
                               /\ Respond("upload", 200)
                          ELSE /\ UNCHANGED <<files, nextFileId>>
                               /\ Respond("upload", 500)

\* POST /upload with fileId, up to and including the select of the files row:
\* the statements of the handler are separate requests to the store, and
\* another request can be served between two of them.  overlap records that
\* another request had read the same row and not yet written it.
UploadSelect(r, user_id, workspace_id, filename, file_id) ==
    /\ uploads[r].pc = "idle"
    /\ UNCHANGED <<users, workspaces, files, filePermissions, nextFileId,
                   nextPermId, workspaceMembers, nextMemberId>>
    /\ UNCHANGED <<input, text, passes, langCode, calls>>
    /\ IF userNotFound(user_id)
       THEN /\ Respond("upload", 404)
            /\ UNCHANGED <<blobs, uploads>>
       ELSE /\ blobs[filename] < MaxBlobVersions
            /\ blobs' = [blobs EXCEPT ![filename] = @ + 1]
            /\ IF fileRows(file_id) = {}
               THEN Respond("upload", 404) /\ UNCHANGED uploads
               ELSE /\ \E file \in fileRows(file_id) :
                         uploads' = [uploads EXCEPT ![r] =
                            [pc |-> "selected",
                             user_id |-> user_id,
                             workspace_id |-> workspace_id,
                             filename |-> filename,
                             file_id |-> file_id,
                             version |-> file.version,
                             overlap |-> \E q \in REQS \ {r} :
                                            /\ uploads[q].pc = "selected"
                                            /\ uploads[q].file_id = file_id]]
                    /\ UNCHANGED resp

\* POST /upload with fileId, from the update of the files row on
UploadUpdate(r) ==
    /\ uploads[r].pc = "selected"
    /\ uploads' = [uploads EXCEPT ![r].pc = "done"]
    /\ UNCHANGED <<users, workspaces, filePermissions, blobs, nextFileId,
                   nextPermId, workspaceMembers, nextMemberId>>
    /\ UNCHANGED <<input, text, passes, langCode, calls>>
    /\ LET u == uploads[r]
       IN IF fileRows(u.file_id) = {}
          THEN \* the row is gone: the update matches nothing
               UNCHANGED files /\ Respond("upload", 200)
          ELSE \E old \in fileRows(u.file_id) :
                 LET new == [old EXCEPT
                               !.file_name = u.filename,
                               !.file_path = blobUrl(u.filename),
                               !.uploader_id = u.user_id,
                               !.workspace_id = u.workspace_id,
                               !.version = reuploadVersion(u.version)]
                     rows == (files \ {old}) \cup {new}
                 IN IF filesForeignKeys(new) /\ file_name_workspace_unique(rows)
                    THEN files' = rows /\ Respond("upload", 200)
                    ELSE UNCHANGED files /\ Respond("upload", 500)

\* GET /file?file_id=..&user_id=..
\* the permission select is .where(user_id = ..).limit(1) with no ORDER BY:
\* any one of the user's rows may be the one returned
GetFile(file_id, user_id) ==
    /\ UNCHANGED aux
    /\ UNCHANGED <<users, workspaces, files, filePermissions, blobs,
                   nextFileId, nextPermId, workspaceMembers, nextMemberId>>
    /\ IF userRows(user_id) = {}
       THEN Respond("getFile", 404)
       ELSE LET permissions == {p \in filePermissions : p.user_id = user_id}
            IN IF permissions = {}
               THEN Respond("getFile", 403)
               ELSE \E p \in permissions :
                      IF ~p.can_view
                      THEN Respond("getFile", 403)
                      ELSE IF fileRows(file_id) = {}
                      THEN Respond("getFile", 404)
                      ELSE Respond("getFile", 200)

\* a file_permissions.file_id reference without ON DELETE CASCADE
fileDeleteNoCascade(fileId) == filePermissions

\* file_permissions.file_id references files.file_id, onDelete: "cascade"
fileDeleteCascade(fileId) == {p \in filePermissions : p.file_id # fileId}

\* DELETE /file/:fileId; file_permissions.file_id is ON DELETE CASCADE.
\* "if (!file)" tests an array, which is never falsy: the answer is always 200
DeleteFile(fileId) ==
    /\ UNCHANGED aux
    /\ files' = files \ fileRows(fileId)
    /\ filePermissions' = fileDeleteCascade(fileId)
    /\ Respond("deleteFile", 200)
    /\ UNCHANGED <<users, workspaces, blobs, nextFileId, nextPermId,
                   workspaceMembers, nextMemberId>>

-----------------------------------------------------------------------------
\* permissions

\* a column the insert leaves undefined takes the column default (false)
insertFlag(caps, f) == IF f \in DOMAIN caps THEN caps[f] ELSE FALSE

\* POST /permissions
GrantPermission(file_id, user_id, workspace_id, caps, granted_by_id) ==
    /\ UNCHANGED aux
    /\ UNCHANGED <<users, workspaces, files, blobs, nextFileId,
                   workspaceMembers, nextMemberId>>
    /\ IF userRows(granted_by_id) = {}
       THEN \* "if (!user)" tests an array; user[0] is undefined and
            \* user[0].is_manager throws a TypeError
            /\ Respond("grant", 500)
            /\ UNCHANGED <<filePermissions, nextPermId>>
       ELSE IF ~isManager(granted_by_id)
       THEN /\ Respond("grant", 400)
            /\ UNCHANGED <<filePermissions, nextPermId>>
       ELSE /\ nextPermId < MaxPerms
            /\ LET new == [permission_id |-> nextPermId + 1,
                           file_id |-> file_id,
                           user_id |-> user_id,
                           workspace_id |-> workspace_id,
                           can_view |-> insertFlag(caps, "can_view"),
                           can_edit |-> insertFlag(caps, "can_edit"),
                           can_delete |-> insertFlag(caps, "can_delete"),
                           can_share |-> insertFlag(caps, "can_share"),
                           can_download |-> insertFlag(caps, "can_download"),
                           granted_by_id |-> granted_by_id]
                   rows == filePermissions \cup {new}
               IN IF filePermissionsForeignKeys(new) /\ file_user_permission_unique(rows)
                  THEN /\ filePermissions' = rows
                       /\ nextPermId' = nextPermId + 1
                       /\ Respond("grant", 200)
                  ELSE /\ UNCHANGED <<filePermissions, nextPermId>>
                       /\ Respond("grant", 500)

\* POST /permissions, through the manager test on the selected user
GrantCheck(file_id, user_id, workspace_id, caps, granted_by_id) ==
    /\ calls["grant"].pc = "idle"
    /\ UNCHANGED <<users, workspaces, files, filePermissions, blobs, nextFileId,
                   nextPermId, workspaceMembers, nextMemberId>>
    /\ UNCHANGED <<input, text, passes, langCode, uploads>>
    /\ IF userRows(granted_by_id) = {}
       THEN Respond("grant", 500) /\ UNCHANGED calls
       ELSE IF ~isManager(granted_by_id)
       THEN Respond("grant", 400) /\ UNCHANGED calls
       ELSE /\ calls' = [calls EXCEPT !["grant"] =
                           [pc |-> "checked", file_id |-> file_id,
                            user_id |-> user_id, workspace_id |-> workspace_id,
                            caps |-> caps, granted_by_id |-> granted_by_id]]
            /\ UNCHANGED resp

\* POST /permissions, the insert
GrantInsert ==
    /\ calls["grant"].pc = "checked"
    /\ calls' = [calls EXCEPT !["grant"].pc = "done"]
    /\ UNCHANGED <<users, workspaces, files, blobs, nextFileId,
                   workspaceMembers, nextMemberId>>
    /\ UNCHANGED <<input, text, passes, langCode, uploads>>
    /\ nextPermId < MaxPerms
    /\ LET b == calls["grant"]
           new == [permission_id |-> nextPermId + 1,
                   file_id |-> b.file_id,
                   user_id |-> b.user_id,
                   workspace_id |-> b.workspace_id,
                   can_view |-> insertFlag(b.caps, "can_view"),
                   can_edit |-> insertFlag(b.caps, "can_edit"),
                   can_delete |-> insertFlag(b.caps, "can_delete"),
                   can_share |-> insertFlag(b.caps, "can_share"),
                   can_download |-> insertFlag(b.caps, "can_download"),
                   granted_by_id |-> b.granted_by_id]
           rows == filePermissions \cup {new}
       IN IF filePermissionsForeignKeys(new) /\ file_user_permission_unique(rows)
          THEN /\ filePermissions' = rows
               /\ nextPermId' = nextPermId + 1
               /\ Respond("grant", 200)
          ELSE /\ UNCHANGED <<filePermissions, nextPermId>>
               /\ Respond("grant", 500)

\* .set(body): a field the body leaves out keeps the column's value
setField(old, new) == IF new = NoId THEN old ELSE new
setFlag(caps, f, old) == IF f \in DOMAIN caps THEN caps[f] ELSE old

\* PUT /permissions
UpdatePermission(permission_id, file_id, user_id, workspace_id, caps, granted_by_id) ==
    /\ UNCHANGED aux
    /\ UNCHANGED <<users, workspaces, files, blobs, nextFileId, nextPermId,
                   workspaceMembers, nextMemberId>>
    /\ IF userRows(granted_by_id) = {}
       THEN Respond("update", 500) /\ UNCHANGED filePermissions
       ELSE IF ~isManager(granted_by_id)
       THEN Respond("update", 400) /\ UNCHANGED filePermissions
       ELSE IF permission_id = NoId
       THEN \* body.permission_id || "": the where clause compares the uuid
            \* column with '', which matches no row or is rejected by the store
            /\ \E status \in {200, 500} : Respond("update", status)
            /\ UNCHANGED filePermissions
       ELSE IF permRows(permission_id) = {}
       THEN \* "if (!permission)" tests an array: an empty result is answered 200
            Respond("update", 200) /\ UNCHANGED filePermissions
       ELSE \E old \in permRows(permission_id) :
              LET new == [permission_id |-> old.permission_id,
                          file_id |-> setField(old.file_id, file_id),
                          user_id |-> setField(old.user_id, user_id),
                          workspace_id |-> setField(old.workspace_id, workspace_id),
                          can_view |-> setFlag(caps, "can_view", old.can_view),
                          can_edit |-> setFlag(caps, "can_edit", old.can_edit),
                          can_delete |-> setFlag(caps, "can_delete", old.can_delete),
                          can_share |-> setFlag(caps, "can_share", old.can_share),
                          can_download |-> setFlag(caps, "can_download", old.can_download),
                          granted_by_id |-> granted_by_id]
                  rows == (filePermissions \ {old}) \cup {new}
              IN IF filePermissionsForeignKeys(new) /\ file_user_permission_unique(rows)
                 THEN filePermissions' = rows /\ Respond("update", 200)
                 ELSE UNCHANGED filePermissions /\ Respond("update", 500)

\* PUT /permissions, through the manager test on the selected user
UpdateCheck(permission_id, file_id, user_id, workspace_id, caps, granted_by_id) ==
    /\ calls["update"].pc = "idle"
    /\ UNCHANGED <<users, workspaces, files, filePermissions, blobs, nextFileId,
                   nextPermId, workspaceMembers, nextMemberId>>
    /\ UNCHANGED <<input, text, passes, langCode, uploads>>
    /\ IF userRows(granted_by_id) = {}
       THEN Respond("update", 500) /\ UNCHANGED calls
       ELSE IF ~isManager(granted_by_id)
       THEN Respond("update", 400) /\ UNCHANGED calls
       ELSE /\ calls' = [calls EXCEPT !["update"] =
                           [pc |-> "checked", permission_id |-> permission_id,
                            file_id |-> file_id, user_id |-> user_id,
                            workspace_id |-> workspace_id,
                            caps |-> caps, granted_by_id |-> granted_by_id]]
            /\ UNCHANGED resp

\* PUT /permissions, the update
UpdateSet ==
    /\ calls["update"].pc = "checked"
    /\ calls' = [calls EXCEPT !["update"].pc = "done"]
    /\ UNCHANGED <<users, workspaces, files, blobs, nextFileId, nextPermId,
                   workspaceMembers, nextMemberId>>
    /\ UNCHANGED <<input, text, passes, langCode, uploads>>
    /\ LET b == calls["update"]
       IN IF b.permission_id = NoId
          THEN /\ \E status \in {200, 500} : Respond("update", status)
               /\ UNCHANGED filePermissions
          ELSE IF permRows(b.permission_id) = {}
          THEN Respond("update", 200) /\ UNCHANGED filePermissions
          ELSE \E old \in permRows(b.permission_id) :
                 LET new == [permission_id |-> old.permission_id,
                             file_id |-> setField(old.file_id, b.file_id),
                             user_id |-> setField(old.user_id, b.user_id),
                             workspace_id |-> setField(old.workspace_id, b.workspace_id),
                             can_view |-> setFlag(b.caps, "can_view", old.can_view),
                             can_edit |-> setFlag(b.caps, "can_edit", old.can_edit),
                             can_delete |-> setFlag(b.caps, "can_delete", old.can_delete),
                             can_share |-> setFlag(b.caps, "can_share", old.can_share),
                             can_download |-> setFlag(b.caps, "can_download", old.can_download),
                             granted_by_id |-> b.granted_by_id]
                     rows == (filePermissions \ {old}) \cup {new}
                 IN IF filePermissionsForeignKeys(new) /\ file_user_permission_unique(rows)
                    THEN filePermissions' = rows /\ Respond("update", 200)
                    ELSE UNCHANGED filePermissions /\ Respond("update", 500)

\* DELETE /permissions/:id: the one path parameter is looked up as a user id
\* and then used as the permission id
RevokePermission(id) ==
    /\ UNCHANGED aux
    /\ UNCHANGED <<users, workspaces, files, blobs, nextFileId, nextPermId,
                   workspaceMembers, nextMemberId>>
    /\ IF userRows(id) = {}
       THEN Respond("revoke", 500) /\ UNCHANGED filePermissions
       ELSE IF ~isManager(id)
       THEN Respond("revoke", 400) /\ UNCHANGED filePermissions
       ELSE /\ filePermissions' = filePermissions \ permRows(id)
            /\ Respond("revoke", 200)

-----------------------------------------------------------------------------
\* bad-word filter.  A text is a sequence of characters.

CHARS == {"a", "B", " ", "\t", "."}
WHITESPACE == {" ", "\t"}

\* data/badwords.json: "ab", "b" and an entry that has the shape of a mask
badwords ==
    [en |-> {<<"a", "b">>, <<"b">>, <<"b", "*", "*", "*", "*", "*", "b">>}]

\* the character class of /[.',|!|?']/g
STRIPPED == {".", "'", ",", "|", "!", "?"}

\* input.replace without the g flag: the first match only
RECURSIVE stripFirstChar(_)
stripFirstChar(str) ==
    IF str = <<>> THEN <<>>
    ELSE IF Head(str) \in STRIPPED THEN Tail(str)
    ELSE <<Head(str)>> \o stripFirstChar(Tail(str))

\* input.replace(/[.',|!|?']/g, '')
stripChars(str) == SelectSeq(str, LAMBDA c : c \notin STRIPPED)

lowerChar(c) == IF c = "B" THEN "b" ELSE IF c = "A" THEN "a" ELSE c
toLowerCase(str) == [i \in DOMAIN str |-> lowerChar(str[i])]

\* String.prototype.trim
RECURSIVE trimStart(_)
trimStart(str) ==
    IF str # <<>> /\ Head(str) \in WHITESPACE THEN trimStart(Tail(str)) ELSE str
RECURSIVE trimEnd(_)
trimEnd(str) ==
    IF str # <<>> /\ str[Len(str)] \in WHITESPACE
    THEN trimEnd(SubSeq(str, 1, Len(str) - 1)) ELSE str
trim(str) == trimEnd(trimStart(str))

\* str.split(/\s+/): a run of whitespace ends a word; a run at either end of
\* the text leaves an empty word there
RECURSIVE split(_)
split(str) ==
    IF str = <<>> THEN << <<>> >>
    ELSE LET rest == split(Tail(str))
         IN IF Head(str) \notin WHITESPACE
            THEN << <<Head(str)>> \o Head(rest) >> \o Tail(rest)
            ELSE IF Tail(str) # <<>> /\ Head(Tail(str)) \in WHITESPACE
            THEN rest
            ELSE << <<>> >> \o rest

\* words.join(' ')
RECURSIVE join(_)
join(words) ==
    IF Len(words) = 0 THEN <<>>
    ELSE IF Len(words) = 1 THEN words[1]
    ELSE words[1] \o <<" ">> \o join(Tail(words))

checkBadWord(userInput, lang) ==
    IF lang \notin DOMAIN badwords
    THEN FALSE
    ELSE toLowerCase(trim(userInput)) \in badwords[lang]

\* word[i] of a string: undefined past its end
charAt(word, i) == IF i \in DOMAIN word THEN word[i] ELSE "undefined"

\* `${word[0]}*****${word[word.length - 1]}`
maskWord(word) ==
    <<charAt(word, 1)>> \o <<"*", "*", "*", "*", "*">> \o <<charAt(word, Len(word))>>

filterBadWords(str, lang) ==
    LET wordsToFilter == split(toLowerCase(stripChars(str)))
        filteredWords == [i \in DOMAIN wordsToFilter |->
                            IF checkBadWord(wordsToFilter[i], lang)
                            THEN maskWord(wordsToFilter[i])
                            ELSE wordsToFilter[i]]
    IN join(filteredWords)

\* the upload handler hands the decoded body to the filter; a body that is
\* uploaded again goes through it again
ApplyFilter ==
    /\ passes < MaxPasses
    /\ text' = filterBadWords(text, langCode)
    /\ passes' = passes + 1
    /\ UNCHANGED <<input, langCode, uploads, calls, storeVars>>

-----------------------------------------------------------------------------
\* Specifications.  The store outlives the server: each specification starts
\* from a store that earlier requests have filled.

\* no text is in the filter and no request is under way
auxIdle ==
    /\ input = <<>> /\ text = <<>> /\ passes = 0 /\ langCode = "en"
    /\ uploads = [r \in REQS |-> [pc |-> "idle"]]
    /\ calls = [c \in CALLS |-> [pc |-> "idle"]]

\* after POST /members {user_id: 1, is_manager: true} and two
\* POST /workspaces/1 with workspace_manager_id 1
storeSeed ==
    /\ users = {[user_id |-> 1, is_manager |-> TRUE]}
    /\ workspaces = {[workspace_id |-> w, workspace_manager_id |-> 1] :
                        w \in WORKSPACE_IDS}
    /\ nextPermId = 0
    /\ filePermissions = {}
    /\ workspaceMembers = {}
    /\ nextMemberId = 0
    /\ resp = [op |-> "none", status |-> 0]
    /\ auxIdle

\* file lifecycle: uploads, re-uploads and deletions by users that come and go
InitFiles ==
    /\ storeSeed
    /\ files = {}
    /\ blobs = [n \in FILE_NAMES |-> 0]
    /\ nextFileId = 0

NextFiles ==
    \/ \E m \in BOOLEAN : CreateMember(2, m)
    \/ \E id \in USER_IDS : DeleteMember(id)
    \/ \E u \in USER_IDS, w \in WORKSPACE_IDS, n \in FILE_NAMES,
          f \in FILE_IDS \cup {NoId} : UploadFile(u, w, n, f)
    \/ \E f \in FILE_IDS : DeleteFile(f)

SpecFiles == InitFiles /\ [][NextFiles]_vars

\* the file rows user 1 has uploaded: file i is named n1 in workspace i
seedFiles ==
    {[file_id |-> w, file_name |-> "n1", file_path |-> blobUrl("n1"),
      uploader_id |-> 1, workspace_id |-> w, version |-> 1] : w \in WORKSPACE_IDS}

\* permission engine: the store after two uploads of user 1
InitPerm ==
    /\ storeSeed
    /\ files = seedFiles
    /\ blobs = [n \in FILE_NAMES |-> IF n = "n1" THEN 2 ELSE 0]
    /\ nextFileId = 2

\* (file_id, workspace_id) of POST /permissions: the client names a file that
\* was uploaded and the workspace it was uploaded to
GRANT_TARGETS == {<<x.file_id, x.workspace_id>> : x \in seedFiles}

\* request bodies of PUT /permissions, as (file_id, user_id, capabilities):
\* new capabilities, or a new user_id for the row
UPDATE_BODIES ==
    {<<NoId, NoId, c>> : c \in CAP_BODIES}
      \cup {<<NoId, u, NoCaps>> : u \in USER_IDS}

NextPerm ==
    \/ \E m \in BOOLEAN : CreateMember(2, m)
    \/ \E id \in USER_IDS : DeleteMember(id)
    \/ \E id \in USER_IDS : PromoteManager(id)
    \/ \E id \in USER_IDS : DemoteManager(id)
    \/ \E f \in FILE_IDS, u \in USER_IDS : GetFile(f, u)
    \/ \E f \in FILE_IDS : DeleteFile(f)
    \/ \E t \in GRANT_TARGETS, u \in USER_IDS, c \in CAP_BODIES, g \in USER_IDS :
          GrantPermission(t[1], u, t[2], c, g)
    \/ \E p \in PERM_IDS \cup {NoId}, b \in UPDATE_BODIES, g \in USER_IDS :
          UpdatePermission(p, b[1], b[2], NoId, b[3], g)
    \/ \E id \in USER_IDS \cup PERM_IDS : RevokePermission(id)

SpecPerm == InitPerm /\ [][NextPerm]_vars

\* workspace administration: the store holds the first manager and nothing
\* else
InitWs ==
    /\ users = {[user_id |-> 1, is_manager |-> TRUE]}
    /\ workspaces = {}
    /\ workspaceMembers = {}
    /\ nextMemberId = 0
    /\ files = {}
    /\ filePermissions = {}
    /\ blobs = [n \in FILE_NAMES |-> 0]
    /\ nextFileId = 0
    /\ nextPermId = 0
    /\ resp = [op |-> "none", status |-> 0]
    /\ auxIdle

NextWs ==
    \/ \E m \in BOOLEAN : CreateMember(2, m)
    \/ \E id \in USER_IDS : DeleteMember(id)
    \/ \E id \in USER_IDS : PromoteManager(id)
    \/ \E id \in USER_IDS : DemoteManager(id)
    \/ \E u \in USER_IDS, w \in WORKSPACE_IDS \cup {NoId}, m \in USER_IDS :
          CreateWorkspace(u, w, m)
    \/ \E w \in WORKSPACE_IDS, u \in USER_IDS, g \in USER_IDS :
          AddMember(w, u, g)
    \/ \E w \in WORKSPACE_IDS, u \in USER_IDS, g \in USER_IDS :
          RemoveMember(w, u, g)

SpecWs == InitWs /\ [][NextWs]_vars

\* shared files: uploads, re-uploads and deletions of files on which user 1
\* grants itself permissions
NextShare ==
    \/ \E u \in USER_IDS, w \in WORKSPACE_IDS, n \in FILE_NAMES,
          f \in FILE_IDS \cup {NoId} : UploadFile(u, w, n, f)
    \/ \E f \in FILE_IDS : DeleteFile(f)
    \/ \E f \in FILE_IDS, w \in WORKSPACE_IDS :
          GrantPermission(f, 1, w, AllCaps, 1)

SpecShare == InitFiles /\ [][NextShare]_vars

\* user removal: user 2 comes and goes, grants and receives permissions on
\* the seeded files and joins workspaces; user 1 manages the workspaces
NextUsers ==
    \/ \E m \in BOOLEAN : CreateMember(2, m)
    \/ DeleteMember(2)
    \/ \E f \in FILE_IDS : DeleteFile(f)
    \/ \E t \in GRANT_TARGETS, u \in USER_IDS, g \in USER_IDS :
          GrantPermission(t[1], u, t[2], AllCaps, g)
    \/ \E w \in WORKSPACE_IDS, u \in USER_IDS : AddMember(w, u, 1)

SpecUsers == InitPerm /\ [][NextUsers]_vars

\* concurrent re-uploads: file 1 has been uploaded once; two requests
\* re-upload, their store statements interleaved
InitRace ==
    /\ storeSeed
    /\ files = {newFileRow(1, "n1", 1, 1)}
    /\ blobs = [n \in FILE_NAMES |-> IF n = "n1" THEN 1 ELSE 0]
    /\ nextFileId = 1

NextRace ==
    \/ \E m \in BOOLEAN : CreateMember(2, m)
    \/ \E r \in REQS, u \in USER_IDS, w \in WORKSPACE_IDS, n \in FILE_NAMES,
          f \in FILE_IDS : UploadSelect(r, u, w, n, f)
    \/ \E r \in REQS : UploadUpdate(r)
    \/ \E f \in FILE_IDS : DeleteFile(f)

SpecRace == InitRace /\ [][NextRace]_vars

\* concurrent promotion and demotion: manager 1 grants user 2 permissions on
\* the seeded files; one promotion and one demotion are served statement by
\* statement
InitCascade ==
    /\ storeSeed
    /\ files = seedFiles
    /\ blobs = [n \in FILE_NAMES |-> IF n = "n1" THEN 2 ELSE 0]
    /\ nextFileId = 2

NextCascade ==
    \/ \E m \in BOOLEAN : CreateMember(2, m)
    \/ \E t \in GRANT_TARGETS, c \in CAP_BODIES :
          GrantPermission(t[1], 2, t[2], c, 1)
    \/ \E id \in USER_IDS : PromoteUsers(id)
    \/ PromoteCascade
    \/ \E id \in USER_IDS : DemoteUsers(id)
    \/ DemoteCascade

SpecCascade == InitCascade /\ [][NextCascade]_vars

\* manager gate under concurrency: one grant and one update are served
\* statement by statement while users are promoted and demoted
NextGate ==
    \/ \E m \in BOOLEAN : CreateMember(2, m)
    \/ \E id \in USER_IDS : PromoteManager(id)
    \/ \E id \in USER_IDS : DemoteManager(id)
    \/ \E t \in GRANT_TARGETS : GrantPermission(t[1], 2, t[2], NoCaps, 1)
    \/ \E t \in GRANT_TARGETS, c \in CAP_BODIES, g \in USER_IDS :
          GrantCheck(t[1], 2, t[2], c, g)
    \/ GrantInsert
    \/ \E p \in PERM_IDS, c \in CAP_BODIES, g \in USER_IDS :
          UpdateCheck(p, NoId, NoId, NoId, c, g)
    \/ UpdateSet

SpecGate == InitCascade /\ [][NextGate]_vars

\* requests that name one user only: manager 1 has created workspace 1,
\* uploaded file 1 and granted user 2 a row without capabilities; from then on
\* every request names user 2 as path user, acting user and grantor
InitSelf ==
    /\ users = {[user_id |-> 1, is_manager |-> TRUE],
                [user_id |-> 2, is_manager |-> FALSE]}
    /\ workspaces = {[workspace_id |-> 1, workspace_manager_id |-> 1]}
    /\ workspaceMembers = {}
    /\ nextMemberId = 0
    /\ files = {x \in seedFiles : x.workspace_id = 1}
    /\ blobs = [n \in FILE_NAMES |-> IF n = "n1" THEN 1 ELSE 0]
    /\ nextFileId = 1
    /\ filePermissions = {[permission_id |-> 1, file_id |-> 1, user_id |-> 2,
                           workspace_id |-> 1, can_view |-> FALSE,
                           can_edit |-> FALSE, can_delete |-> FALSE,
                           can_share |-> FALSE, can_download |-> FALSE,
                           granted_by_id |-> 1]}
    /\ nextPermId = 1
    /\ resp = [op |-> "none", status |-> 0]
    /\ auxIdle

NextSelf ==
    \/ \E m \in BOOLEAN : CreateMember(2, m)
    \/ DeleteMember(2)
    \/ PromoteManager(2)
    \/ DemoteManager(2)
    \/ \E w \in WORKSPACE_IDS \cup {NoId} : CreateWorkspace(2, w, 2)
    \/ \E w \in WORKSPACE_IDS : AddMember(w, 2, 2)
    \/ \E w \in WORKSPACE_IDS : RemoveMember(w, 2, 2)
    \/ \E w \in WORKSPACE_IDS, n \in FILE_NAMES, f \in FILE_IDS \cup {NoId} :
          UploadFile(2, w, n, f)
    \/ \E f \in FILE_IDS : GetFile(f, 2)
    \/ \E f \in FILE_IDS, w \in WORKSPACE_IDS, c \in CAP_BODIES :
          GrantPermission(f, 2, w, c, 2)
    \/ \E p \in PERM_IDS, c \in CAP_BODIES :
          UpdatePermission(p, NoId, NoId, NoId, c, 2)
    \/ RevokePermission(2)

SpecSelf == InitSelf /\ [][NextSelf]_vars

\* bad-word filter: any text of at most MaxLen characters, under the language
\* code of the upload handler or one the table does not have
TEXTS == UNION {[1..n -> CHARS] : n \in 0..MaxLen}

InitFilter ==
    /\ input \in TEXTS
    /\ text = input
    /\ passes = 0
    /\ langCode \in {"en", "xx"}
    /\ uploads = [r \in REQS |-> [pc |-> "idle"]]
    /\ calls = [c \in CALLS |-> [pc |-> "idle"]]
    /\ users = {} /\ workspaces = {} /\ workspaceMembers = {}
    /\ files = {} /\ filePermissions = {}
    /\ blobs = [n \in FILE_NAMES |-> 0]
    /\ nextFileId = 0 /\ nextPermId = 0 /\ nextMemberId = 0
    /\ resp = [op |-> "none", status |-> 0]

NextFilter == ApplyFilter

SpecFilter == InitFilter /\ [][NextFilter]_vars

-----------------------------------------------------------------------------
\* Properties

allFive(p, v) ==
    /\ p.can_view = v /\ p.can_edit = v /\ p.can_delete = v
    /\ p.can_share = v /\ p.can_download = v

\* C1: the first upload (no fileId) stores version 1, and every successful
\* re-upload that names an existing file_id raises that row's version by
\* exactly 1.
C1_VersionAdvancesByOne ==
    [][(resp'.op = "upload" /\ resp'.status = 200) =>
          \A u \in USER_IDS, w \in WORKSPACE_IDS, n \in FILE_NAMES,
             f \in FILE_IDS \cup {NoId} :
             UploadFile(u, w, n, f) =>
                IF f = NoId
                THEN \A new \in files' \ files : new.version = 1
                ELSE \A old \in fileRows(f) :
                       \E new \in files' :
                          new.file_id = f /\ new.version = old.version + 1]_vars

\* C2: promoting an existing user sets is_manager and all five flags of every
\* file_permissions row of that user, in whatever workspace, to true; demoting
\* sets is_manager and all five flags of every such row to false.
C2_ManagerCascade ==
    [][\A id \in {u.user_id : u \in users} :
          /\ (resp'.op = "promote" /\ PromoteManager(id)) =>
                /\ \A u \in users' : u.user_id = id => u.is_manager
                /\ \A p \in filePermissions : p.user_id = id =>
                      \E q \in filePermissions' :
                         q.permission_id = p.permission_id /\ allFive(q, TRUE)
          /\ (resp'.op = "demote" /\ DemoteManager(id)) =>
                /\ \A u \in users' : u.user_id = id => ~u.is_manager
                /\ \A p \in filePermissions : p.user_id = id =>
                      \E q \in filePermissions' :
                         q.permission_id = p.permission_id /\ allFive(q, FALSE)]_vars

\* C2 witness: a promotion has been answered and the promoted user holds
\* all-true rows in two workspaces
C2_Witness ==
    /\ resp.op = "promote"
    /\ \E u \in users : \E p, q \in filePermissions :
          /\ u.is_manager
          /\ p.user_id = u.user_id /\ q.user_id = u.user_id
          /\ p.workspace_id # q.workspace_id
          /\ allFive(p, TRUE) /\ allFive(q, TRUE)

\* C3: a grant whose granted_by_id is an existing user with is_manager false is
\* answered 400 (NotAuthorized) and leaves file_permissions unchanged: a grant
\* step that ends otherwise is the step of no request with such a grantor.
C3_GrantByNonManager ==
    [][(resp'.op = "grant"
          /\ ~(resp'.status = 400 /\ filePermissions' = filePermissions)) =>
          \A g \in {x.user_id : x \in {y \in users : ~y.is_manager}},
             t \in GRANT_TARGETS, u \in USER_IDS, c \in CAP_BODIES :
             ~GrantPermission(t[1], u, t[2], c, g)]_vars

\* C3 witness: a grant has been refused with 400 while a non-manager exists
\* and every row the request needs (both files, both users) is there
C3_Witness ==
    /\ resp = [op |-> "grant", status |-> 400]
    /\ \E x \in users : ~x.is_manager
    /\ Cardinality(users) = 2 /\ Cardinality(files) = 2
    /\ nextPermId < MaxPerms

\* C4: an update whose granted_by_id is an existing user with is_manager
\* false, and a revoke issued by an acting user with is_manager false, are
\* answered 400 whatever the other fields are and leave file_permissions
\* unchanged.  The revoke request carries no field for the acting user, so
\* the acting user is any non-manager of the store.
C4_UpdateRevokeByNonManager ==
    [][/\ resp'.op = "update" =>
             \A g \in {x.user_id : x \in {y \in users : ~y.is_manager}},
                p \in PERM_IDS \cup {NoId}, b \in UPDATE_BODIES :
                UpdatePermission(p, b[1], b[2], NoId, b[3], g) =>
                   (resp'.status = 400 /\ filePermissions' = filePermissions)
       /\ (resp'.op = "revoke" /\ \E a \in users : ~a.is_manager) =>
             \A id \in USER_IDS \cup PERM_IDS :
                RevokePermission(id) =>
                   (resp'.status = 400 /\ filePermissions' = filePermissions)]_vars

\* C5: for an existing user u and an existing file f, the locator request is
\* answered 200 exactly when a row (file_id = f, user_id = u, can_view) exists,
\* and 403 otherwise.
C5_LocatorNeedsViewRowOnThatFile ==
    [][resp'.op = "getFile" =>
          \A f \in FILE_IDS, u \in USER_IDS :
             (GetFile(f, u) /\ userRows(u) # {} /\ fileRows(f) # {}) =>
                IF \E p \in filePermissions :
                      p.file_id = f /\ p.user_id = u /\ p.can_view
                THEN resp'.status = 200
                ELSE resp'.status = 403]_vars

\* C6: at most one file_permissions row per (file_id, user_id), in every
\* reachable state: no grant or update commits a second row for a pair.
C6_OnePermissionPerFileUser ==
    \A p, q \in filePermissions :
       (p.file_id = q.file_id /\ p.user_id = q.user_id) =>
          p.permission_id = q.permission_id

\* C6 witness: a grant by an existing manager, for files and users that all
\* exist, has been refused: the pair it named already had a row
C6_Witness ==
    /\ resp = [op |-> "grant", status |-> 500]
    /\ nextPermId < MaxPerms
    /\ filePermissions # {}
    /\ Cardinality(files) = 2
    /\ Cardinality(users) = 2 /\ \A x \in users : x.is_manager

\* C7: at most one files row per (workspace_id, file_name), in every reachable
\* state.
C7_OneFilePerWorkspaceName ==
    \A f, g \in files :
       (f.workspace_id = g.workspace_id /\ f.file_name = g.file_name) =>
          f.file_id = g.file_id

\* C7 witness: an upload has been refused by the store while two file rows
\* exist
C7_Witness ==
    /\ resp = [op |-> "upload", status |-> 500]
    /\ Cardinality(files) = 2

\* C8: a revoke that names an existing row, issued while the acting user is an
\* existing manager, deletes exactly that row.  The request carries no field
\* for the acting user, so it is any manager of the store.
C8_ManagerRevokesExistingRow ==
    [][(resp'.op = "revoke" /\ \E m \in users : m.is_manager) =>
          \A id \in {p.permission_id : p \in filePermissions} :
             RevokePermission(id) =>
                (resp'.status = 200
                   /\ filePermissions' = filePermissions \ permRows(id))]_vars

\* C9: a grant whose granted_by_id resolves to no user is answered 404
\* (NotFound) and inserts no row.
C9_GrantByUnknownUser ==
    [][resp'.op = "grant" =>
          \A g \in USER_IDS \ {x.user_id : x \in users},
             t \in GRANT_TARGETS, u \in USER_IDS, c \in CAP_BODIES :
             GrantPermission(t[1], u, t[2], c, g) =>
                (resp'.status = 404 /\ filePermissions' = filePermissions)]_vars

\* C10: an update by a manager whose permission_id (left out or not) matches
\* no row is answered 404 (NotFound) and changes no row.
C10_UpdateOfNoRow ==
    [][resp'.op = "update" =>
          \A g \in {x.user_id : x \in {y \in users : y.is_manager}},
             p \in (PERM_IDS \cup {NoId}) \ {r.permission_id : r \in filePermissions},
             b \in UPDATE_BODIES :
             UpdatePermission(p, b[1], b[2], NoId, b[3], g) =>
                (resp'.status = 404 /\ filePermissions' = filePermissions)]_vars

C13_OneMembershipPerPair ==
    \A m, n \in workspaceMembers :
       (m.user_id = n.user_id /\ m.workspace_id = n.workspace_id) =>
          m.workspace_member_id = n.workspace_member_id

\* C13 witness: an addMember by a manager, naming an existing user and an
\* existing workspace, has been refused: the pair was a member already
C13_Witness ==
    /\ resp = [op |-> "addMember", status |-> 500]
    /\ nextMemberId < MaxMembers
    /\ workspaceMembers # {}
    /\ Cardinality(workspaces) = 2
    /\ Cardinality(users) = 2 /\ \A x \in users : x.is_manager

\* C14: an upload whose userId resolves to no user is answered 404 and
\* leaves the blob container and the files table unchanged.
C14_UploadByUnknownUser ==
    [][resp'.op = "upload" =>
          \A u \in USER_IDS \ {x.user_id : x \in users},
             w \in WORKSPACE_IDS, n \in FILE_NAMES, f \in FILE_IDS \cup {NoId} :
             UploadFile(u, w, n, f) =>
                (resp'.status = 404 /\ blobs' = blobs /\ files' = files)]_vars

\* C14 witness: an upload has been refused with 404 although every file id
\* the request could name is absent or not: no blob was ever written, so the
\* refusal was the uploader's
C14_Witness ==
    /\ resp = [op |-> "upload", status |-> 404]
    /\ Cardinality(users) = 1
    /\ \A n \in FILE_NAMES : blobs[n] = 0

\* C15: a successful upload without fileId adds exactly one files row, with
\* version 1 and the file_name, uploader_id and workspace_id of the request,
\* and changes no other files row; a successful upload with fileId adds no
\* row, keeps the row's file_id and leaves every other files row and every
\* file_permissions row unchanged.
C15_UploadFrame ==
    [][(resp'.op = "upload" /\ resp'.status = 200) =>
          \A u \in USER_IDS, w \in WORKSPACE_IDS, n \in FILE_NAMES,
             f \in FILE_IDS \cup {NoId} :
             UploadFile(u, w, n, f) =>
                IF f = NoId
                THEN \E new \in files' \ files :
                       /\ files' = files \cup {new}
                       /\ new.version = 1 /\ new.file_name = n
                       /\ new.uploader_id = u /\ new.workspace_id = w
                ELSE /\ {x.file_id : x \in files'} = {x.file_id : x \in files}
                     /\ Cardinality(files') = Cardinality(files)
                     /\ \A x \in files : x.file_id # f => x \in files'
                     /\ filePermissions' = filePermissions]_vars

\* C15 witness: the one file that was inserted carries a permission and has
\* then been re-uploaded with success
C15_Witness ==
    /\ resp = [op |-> "upload", status |-> 200]
    /\ nextFileId = 1
    /\ Cardinality(files) = 1
    /\ filePermissions # {}

\* C16: the version of a files row never decreases; a file_id that was issued
\* and whose row is gone never has a row again; a re-upload that names such a
\* file_id is answered 404 and inserts no row.
C16_FileLifecycle ==
    [][/\ \A old \in files, new \in files' :
             new.file_id = old.file_id => new.version >= old.version
       /\ \A f \in FILE_IDS :
             (f <= nextFileId /\ fileRows(f) = {}) =>
                ~\E x \in files' : x.file_id = f
       /\ resp'.op = "upload" =>
             \A u \in {x.user_id : x \in users}, w \in WORKSPACE_IDS,
                n \in FILE_NAMES,
                f \in {g \in FILE_IDS : g <= nextFileId /\ fileRows(g) = {}} :
                UploadFile(u, w, n, f) =>
                   (resp'.status = 404 /\ files' = files)]_vars

\* C16 witness: every file id has been issued and deleted, and an upload by
\* an existing user has then been answered 404
C16_Witness ==
    /\ resp = [op |-> "upload", status |-> 404]
    /\ Cardinality(users) = 2
    /\ nextFileId = MaxFiles
    /\ files = {}

\* C17: deleting an existing file removes its files row and every
\* file_permissions row with that file_id and leaves all other rows of both
\* tables unchanged; in every reachable state each file_permissions row
\* refers to an existing file.
C17_DeleteFileCascade ==
    /\ [][resp'.op = "deleteFile" =>
             \A f \in {x.file_id : x \in files} :
                DeleteFile(f) =>
                   /\ resp'.status = 200
                   /\ files' = {x \in files : x.file_id # f}
                   /\ filePermissions' =
                         {p \in filePermissions : p.file_id # f}]_vars
    /\ [](\A p \in filePermissions : \E x \in files : x.file_id = p.file_id)

\* C17 witness: a file has been deleted, the other file and a permission on
\* it are still there, and a second permission that was granted is gone
C17_Witness ==
    /\ resp = [op |-> "deleteFile", status |-> 200]
    /\ Cardinality(files) = 1
    /\ Cardinality(filePermissions) = 1
    /\ nextPermId = 2

\* C18: deleting a user that some file_permissions row names as granted_by_id
\* fails and leaves every table unchanged; deleting a user that no such row,
\* no file and no workspace names removes the user and the file_permissions
\* and workspace_members rows with that user_id; in every reachable state each
\* file_permissions row's granted_by_id refers to an existing user.
C18_GrantorRestrict ==
    /\ [][resp'.op = "deleteMember" =>
             \A id \in {x.user_id : x \in users} :
                DeleteMember(id) =>
                   IF \E p \in filePermissions : p.granted_by_id = id
                   THEN /\ resp'.status # 200
                        /\ UNCHANGED <<users, workspaces, workspaceMembers,
                                       files, filePermissions, blobs>>
                   ELSE (/\ ~\E f \in files : f.uploader_id = id
                         /\ ~\E w \in workspaces : w.workspace_manager_id = id)
                        => /\ users' = {x \in users : x.user_id # id}
                           /\ filePermissions' =
                                 {p \in filePermissions : p.user_id # id}
                           /\ workspaceMembers' =
                                 {m \in workspaceMembers : m.user_id # id}
                           /\ UNCHANGED <<workspaces, files, blobs>>]_vars
    /\ [](\A p \in filePermissions :
             \E x \in users : x.user_id = p.granted_by_id)

\* C18 witness: the deletion of user 2 has been refused while user 2 is the
\* grantor of a permission, holds a permission and is a member of a workspace
C18_Witness ==
    /\ resp = [op |-> "deleteMember", status |-> 500]
    /\ \E p \in filePermissions : p.granted_by_id = 2
    /\ \E p \in filePermissions : p.user_id = 2
    /\ \E m \in workspaceMembers : m.user_id = 2

\* C19: for the blocklist and a language code, filtering a text that has
\* been filtered gives that text back.
C19_FilterIdempotent ==
    passes >= 1 => filterBadWords(text, langCode) = text

\* C19 witness: a text has gone through the filter twice and a word of it was
\* masked
C19_Witness ==
    /\ passes = 2
    /\ langCode = "en"
    /\ text # input
    /\ \E i \in DOMAIN text : text[i] = "*"

\* C20: when two re-uploads of one file have both read the same version and
\* both have written, the row's version is less than 2 above the version
\* they read.
C20_ConcurrentReuploadLosesAVersion ==
    \A r, q \in REQS :
       (/\ r # q
        /\ uploads[r].pc = "done" /\ uploads[q].pc = "done"
        /\ uploads[r].file_id = uploads[q].file_id
        /\ uploads[r].version = uploads[q].version) =>
          \A x \in files :
             x.file_id = uploads[r].file_id => x.version < uploads[r].version + 2

\* C20 witness: two re-uploads of the same file have both completed, one of
\* them read the row while the other had read it and not yet written it, and
\* the row is still there
C20_Witness ==
    \E r, q \in REQS :
       /\ r # q
       /\ uploads[r].pc = "done" /\ uploads[q].pc = "done"
       /\ uploads[r].file_id = uploads[q].file_id
       /\ uploads[r].version = uploads[q].version
       /\ uploads[r].overlap
       /\ \E x \in files : x.file_id = uploads[r].file_id
       /\ resp = [op |-> "upload", status |-> 200]

\* C21: every workspace row that createWorkspace stores names, as
\* workspace_manager_id, an existing user whose is_manager is true.
C21_WorkspaceManagerIsManager ==
    [][(resp'.op = "createWorkspace" /\ resp'.status = 200) =>
          \A new \in workspaces' \ workspaces :
             \E x \in users :
                x.user_id = new.workspace_manager_id /\ x.is_manager]_vars

\* C22: a successful update of the row permissionId leaves that row's
\* file_id, user_id and workspace_id as they were and every other
\* file_permissions row unchanged.
C22_UpdateChangesFlagsOnly ==
    [][(resp'.op = "update" /\ resp'.status = 200) =>
          \A g \in {x.user_id : x \in users},
             p \in {r.permission_id : r \in filePermissions},
             b \in UPDATE_BODIES :
             UpdatePermission(p, b[1], b[2], NoId, b[3], g) =>
                \E old \in permRows(p), new \in filePermissions' :
                   /\ new.permission_id = p
                   /\ new.file_id = old.file_id
                   /\ new.user_id = old.user_id
                   /\ new.workspace_id = old.workspace_id
                   /\ filePermissions' \ {new} = filePermissions \ {old}]_vars

\* C23: in every reachable state each file_permissions row carries the
\* workspace_id of the files row it refers to.
C23_PermissionWorkspaceIsFileWorkspace ==
    \A p \in filePermissions, f \in files :
       f.file_id = p.file_id => p.workspace_id = f.workspace_id

\* C24: at the moment a promotion and a demotion of the same user have both
\* completed, the user's file_permissions rows agree with is_manager: all
\* five flags true on every row of a manager, all five false on every row
\* of a non-manager.
C24_CascadeAgreesAfterBoth ==
    [][(/\ calls'["promote"].pc = "done" /\ calls'["demote"].pc = "done"
        /\ ~(calls["promote"].pc = "done" /\ calls["demote"].pc = "done")
        /\ calls'["promote"].id = calls'["demote"].id) =>
          \A x \in users' :
             x.user_id = calls'["promote"].id =>
                \A p \in filePermissions' :
                   p.user_id = x.user_id => allFive(p, x.is_manager)]_vars

\* C25: whenever the insert of a grant or the update of an updatePermission
\* changes file_permissions, the grantor of that request is a manager at that
\* moment.
C25_GateHoldsAtWrite ==
    [][\A c \in {"grant", "update"} :
          (/\ calls[c].pc = "checked" /\ calls'[c].pc = "done"
           /\ filePermissions' # filePermissions) =>
             \E x \in users :
                x.user_id = calls[c].granted_by_id /\ x.is_manager]_vars

\* C26: when every request names user 2, who starts as a non-manager, user 2
\* never becomes a manager, never holds a row with can_view, and no workspace,
\* permission or membership is created.
C26_NoSelfEscalation ==
    /\ \A x \in users : x.user_id = 2 => ~x.is_manager
    /\ \A p \in filePermissions : p.user_id = 2 => ~p.can_view
    /\ workspaces \subseteq {[workspace_id |-> 1, workspace_manager_id |-> 1]}
    /\ nextPermId = 1
    /\ workspaceMembers = {}

\* C27: an upload or re-upload under the name n in one workspace leaves the
\* stored versions of the name n unchanged when a different files row of
\* another workspace carries the same name.
C27_UploadLeavesOtherWorkspaceBlob ==
    [][resp'.op = "upload" =>
         \A u \in USER_IDS, w \in WORKSPACE_IDS, n \in FILE_NAMES,
            f \in FILE_IDS \cup {NoId} :
              UploadFile(u, w, n, f) =>
                 \A x \in files :
                    (x.file_name = n /\ x.workspace_id # w /\ x.file_id # f) =>
                       blobs'[n] = blobs[n]]_vars

\* C28: an upload by an existing user whose fileId matches no files row is
\* answered 404 and leaves blobs and files unchanged.
C28_UploadUnknownFileIdNoEffect ==
    [][resp'.op = "upload" =>
         \A u \in {x.user_id : x \in users}, w \in WORKSPACE_IDS,
            n \in FILE_NAMES, f \in FILE_IDS :
              (fileRows(f) = {} /\ UploadFile(u, w, n, f)) =>
                 /\ resp'.status = 404
                 /\ blobs' = blobs
                 /\ files' = files
                 /\ nextFileId' = nextFileId]_vars

\* C29: every files row has at least one blob version stored under its
\* file_name.
C29_FileRowHasBlob ==
    \A f \in files : blobs[f.file_name] >= 1

\* C29 witness: an upload whose metadata write failed has been answered while
\* files rows exist
C29_Witness ==
    /\ resp.op = "upload" /\ resp.status = 500
    /\ files # {}
    /\ \E n \in FILE_NAMES : blobs[n] = 2

\* C30 as stated: demoting a user who is not a manager, and promoting one who
\* is, leaves the rows of that user unchanged; promotion and demotion leave the
\* rows of other users unchanged and keep the set of permission ids.
C30_NoTransitionNoChange ==
    [][\A id \in {u.user_id : u \in users} :
          /\ (resp'.op = "demote" /\ DemoteManager(id)
                /\ \A u \in users : u.user_id = id => ~u.is_manager) =>
                \A p \in filePermissions : p.user_id = id => p \in filePermissions'
          /\ (resp'.op = "promote" /\ PromoteManager(id)
                /\ \A u \in users : u.user_id = id => u.is_manager) =>
                \A p \in filePermissions : p.user_id = id => p \in filePermissions'
          /\ ((resp'.op = "demote" /\ DemoteManager(id))
                \/ (resp'.op = "promote" /\ PromoteManager(id))) =>
                /\ \A p \in filePermissions : p.user_id # id => p \in filePermissions'
                /\ {p.permission_id : p \in filePermissions'}
                      = {p.permission_id : p \in filePermissions}]_vars

\* C30 amended: demoting a user who is not a manager still sets the five flags
\* of every row of that user to false, and promoting one who is a manager
\* still sets them to true; in both the other columns of those rows are kept,
\* the rows of other users are unchanged and no row is inserted or deleted.
C30_CascadeWithoutTransition ==
    [][\A id \in {u.user_id : u \in users} :
          /\ (resp'.op = "demote" /\ DemoteManager(id)
                /\ \A u \in users : u.user_id = id => ~u.is_manager) =>
                \A p \in filePermissions : p.user_id = id =>
                   \E q \in filePermissions' :
                      /\ q.permission_id = p.permission_id
                      /\ q.file_id = p.file_id /\ q.user_id = p.user_id
                      /\ q.workspace_id = p.workspace_id
                      /\ q.granted_by_id = p.granted_by_id
                      /\ allFive(q, FALSE)
          /\ (resp'.op = "promote" /\ PromoteManager(id)
                /\ \A u \in users : u.user_id = id => u.is_manager) =>
                \A p \in filePermissions : p.user_id = id =>
                   \E q \in filePermissions' :
                      /\ q.permission_id = p.permission_id
                      /\ q.file_id = p.file_id /\ q.user_id = p.user_id
                      /\ q.workspace_id = p.workspace_id
                      /\ q.granted_by_id = p.granted_by_id
                      /\ allFive(q, TRUE)
          /\ ((resp'.op = "demote" /\ DemoteManager(id))
                \/ (resp'.op = "promote" /\ PromoteManager(id))) =>
                /\ \A p \in filePermissions : p.user_id # id => p \in filePermissions'
                /\ {p.permission_id : p \in filePermissions'}
                      = {p.permission_id : p \in filePermissions}]_vars

\* C30 witness: user 2, who is not a manager, has just been demoted and holds
\* an all-false row, while manager 1 still holds a row with can_view
C30_Witness ==
    /\ resp.op = "demote"
    /\ \E u, v \in users : \E p, q \in filePermissions :
          /\ u.user_id = 2 /\ ~u.is_manager /\ v.user_id = 1 /\ v.is_manager
          /\ p.user_id = 2 /\ allFive(p, FALSE)
          /\ q.user_id = 1 /\ q.can_view

====
